---- MODULE Spec2Model ----
(***************************************************************************)
(* Asynchronous simulation job orchestration of the Pandemic Exercise Tool *)
(* backend: the control surface (backend/pet/views.py), the Celery task    *)
(* run_pes with its harvester loop (backend/pet/pes_task.py), the result   *)
(* store (the Mongo collection PES.days), the exchange directory /PES and  *)
(* the simulator child processes.                                          *)
(*                                                                         *)
(* Time is counted per job in ticks of half a second: time.sleep(0.5) is   *)
(* one tick, time.sleep(1) two ticks.  max_wait_time, the day cap and the  *)
(* simulator's --days horizon are scaled down; they keep the order of the  *)
(* program's values (cap < horizon, several polls before the timeout).     *)
(***************************************************************************)
EXTENDS Integers, Sequences, FiniteSets, TLC

\* ---- bounds of the model -------------------------------------------------
MaxJobs == 2          \* submits (task ids 1..MaxJobs)
SimDays == 2          \* the simulator's day horizon (--days 999, scaled)
max_wait_time == 4    \* harvester timeout in ticks (300 s, scaled)
MaxProcessed == 2     \* harvester's cap on processed_files (90, scaled)
worker_concurrency == 1   \* pool processes of the Celery worker
MaxRegions == 2       \* regions named in the location of an enumerated NPI

\* age groups of the simulator: the 5 of `[va] * 5`
AgeGroups == 5

Tasks == 1..MaxJobs
Days == 0..(SimDays - 1)
QueryDays == 0..SimDays
NoDay == 0 - 1

VARIABLES
    broker,           \* the task queue: sequence of task messages [id, input]
    next_id,          \* next task id run_pes.delay hands out
    revoked,          \* task ids the workers hold as revoked
    pc,               \* per task: where its run_pes execution is
    start_elapsed,    \* per task: time.time() - start_time, in ticks
    processed_files,  \* per task: run_pes's counter
    files,            \* per task: files[0] of the last glob, [name, src]
    error_log,        \* per task: "Error processing file" lines printed
    warning_log,      \* per task: "Warning: County ... not found" lines printed
    sim,              \* per task: the simulator child Popen started
    outdir,           \* /PES/OUTPUT*: per day name, the file there
    INPUT_json,       \* /PES/INPUT.json: the config written last and the task
                      \* that wrote it
    mycol,            \* the collection PES.days, in insertion (natural) order
    event_data,       \* the dashboard's dcc.Store 'event-data': the days fetched
    simulation_state, \* the dashboard's dcc.Store 'simulation-state':
                      \* isRunning and taskId (0 for None)
    api_call          \* PandemicAPIClient's last get_simulation_output call:
                      \* what its request met and what the call gave

vars == <<broker, next_id, revoked, pc, start_elapsed, processed_files, files,
          error_log, warning_log, sim, outdir, INPUT_json, mycol, event_data,
          simulation_state, api_call>>

\* ---- values --------------------------------------------------------------
NoFile == [src |-> 0, st |-> "none"]
NoPick == [name |-> NoDay, src |-> 0]
NoSim == [st |-> "none", pdeathsig |-> FALSE, sig |-> FALSE, day |-> 0,
          writing |-> FALSE]
\* no INPUT.json written yet
NoConfig == [id |-> 0, input_file |-> [output |-> ""]]

\* run_pes is executing in a pool process of the worker
Active == {"popen", "popen_wait", "loop", "picked", "remove", "except"}
\* run_pes is inside the harvester loop
Harvesting == {"loop", "picked", "remove", "except"}
Terminal == {"SUCCESS", "FAILURE", "REVOKED", "dropped"}

\* ---- the request and its Python values -----------------------------------
\* A value of the request (the JSON document run_job fetched) is a record
\* tagged with its Python type, with one field per kind of content: n the
\* number, s the characters of a str, l the items of a list, d the items of a
\* dict (a record).  A str holding a well-formed JSON text of a list, a dict or
\* null is kept by the value the text encodes (tag "json", in l); such a str
\* only occurs in fields that are read by json.loads alone.  A raised
\* exception is a value too (its name in s).
NoDict == [none |-> 0]
None == [t |-> "None", n |-> 0, s |-> <<>>, l |-> <<>>, d |-> NoDict]
Num(n) == [None EXCEPT !.t = "num", !.n = n]
Str(s) == [None EXCEPT !.t = "str", !.s = s]
List(l) == [None EXCEPT !.t = "list", !.l = l]
Dict(d) == [None EXCEPT !.t = "dict", !.d = d]
JsonText(x) == [None EXCEPT !.t = "json", !.l = <<x>>]
Raise(e) == [None EXCEPT !.t = "raise", !.s = <<e>>]

isinstance_str(x) == x.t \in {"str", "json"}

DigitChar == <<"0", "1", "2", "3", "4", "5", "6", "7", "8", "9">>
Digits == {DigitChar[i] : i \in 1..10}
DigitValue(c) == (CHOOSE i \in 1..10 : DigitChar[i] = c) - 1

\* the characters are a JSON number literal (digits, no leading zero)
IsNumeral(s) ==
    /\ s # <<>>
    /\ \A i \in 1..Len(s) : s[i] \in Digits
    /\ Len(s) > 1 => s[1] # "0"

RECURSIVE int(_)
int(s) ==
    IF Len(s) = 1 THEN DigitValue(s[1])
    ELSE 10 * int(SubSeq(s, 1, Len(s) - 1)) + DigitValue(s[Len(s)])

\* json.loads(x): TypeError unless x is a str; the value a well-formed text
\* encodes; JSONDecodeError for any other text (a text of letters, commas and
\* digits is well-formed only as a number literal)
json_loads(x) ==
    IF x.t = "json" THEN x.l[1]
    ELSE IF x.t = "str"
    THEN IF IsNumeral(x.s) THEN Num(int(x.s)) ELSE Raise("JSONDecodeError")
    ELSE Raise("TypeError")

RECURSIVE str_int(_)
str_int(n) ==
    IF n < 10 THEN <<DigitChar[n + 1]>>
    ELSE str_int(n \div 10) \o <<DigitChar[(n % 10) + 1]>>

\* str(x) of a str, a number or None
str(x) ==
    CASE x.t = "str" -> x.s
      [] x.t = "num" -> str_int(x.n)
      [] x.t = "None" -> <<"N", "o", "n", "e">>

\* s.split(sep): the pieces between the separators; ''.split(',') is ['']
RECURSIVE split(_, _)
split(s, sep) ==
    IF \A i \in 1..Len(s) : s[i] # sep
    THEN <<s>>
    ELSE LET k == CHOOSE i \in 1..Len(s) :
                      s[i] = sep /\ \A j \in 1..(i - 1) : s[j] # sep
         IN  <<SubSeq(s, 1, k - 1)>> \o split(SubSeq(s, k + 1, Len(s)), sep)

\* sep.join(l) of a list of strs
RECURSIVE join(_, _)
join(sep, l) ==
    IF l = <<>> THEN <<>>
    ELSE IF Len(l) = 1 THEN l[1]
    ELSE l[1] \o <<sep>> \o join(sep, Tail(l))

\* x.split(',') as a list of str values
split_values(x) ==
    LET parts == split(x.s, ",")
    IN  [i \in 1..Len(parts) |-> Str(parts[i])]

\* ---- return_valid_input (pes_task.py) ------------------------------------
\* texasMapping.texas_mapping: the fixed mapping from region names to the
\* simulator's region ids; "A" and "B" stand for two county names, every other
\* name is unknown
texas_mapping == (<<"A">> :> <<"1">>) @@ (<<"B">> :> <<"3">>)

\* `county in texas_mapping` raises TypeError for an unhashable county
Hashable(x) == x.t \notin {"list", "dict"}

\* `county in texas_mapping`, for a hashable county
in_texas_mapping(county) ==
    county.t = "str" /\ county.s \in DOMAIN texas_mapping

\* (mutant) a county not in the mapping is skipped
new_county_known_only(county) ==
    IF in_texas_mapping(county) THEN <<texas_mapping[county.s]>> ELSE <<>>

\* The body of `for county in counties`: what the iteration appends to
\* new_list: the mapped id, or the default '1' for a county not in the mapping
new_county(county) ==
    IF in_texas_mapping(county) THEN <<texas_mapping[county.s]>>
    ELSE <<<<"1">>>>

\* counties of an NPI's location: a str is split at commas, a list is taken as
\* it is, anything else is one county, str(location)
counties(location) ==
    IF isinstance_str(location) THEN split_values(location)
    ELSE IF location.t = "list" THEN location.l
    ELSE <<Str(str(location))>>

RECURSIVE new_list(_)
new_list(cs) ==
    IF cs = <<>> THEN <<>> ELSE new_county(Head(cs)) \o new_list(Tail(cs))

\* eff_list of an NPI's effectiveness: a str is split at commas, the entries
\* of a list are made strs, anything else is the one entry str(effectiveness)
eff_list(effectiveness) ==
    IF isinstance_str(effectiveness) THEN split_values(effectiveness)
    ELSE IF effectiveness.t = "list"
    THEN [i \in 1..Len(effectiveness.l) |-> Str(str(effectiveness.l[i]))]
    ELSE <<Str(str(effectiveness))>>

\* One iteration of `for index, npi in enumerate(npis)`: the NPI with its
\* location and effectiveness replaced, or the exception the iteration raises
npi_normalized(npi) ==
    IF npi.t # "dict" THEN Raise("TypeError")
    ELSE IF "location" \notin DOMAIN npi.d THEN Raise("KeyError")
    ELSE IF \E i \in 1..Len(counties(npi.d.location)) :
                ~Hashable(counties(npi.d.location)[i])
    THEN Raise("TypeError")
    ELSE IF "effectiveness" \notin DOMAIN npi.d THEN Raise("KeyError")
    ELSE Dict([npi.d EXCEPT
                 !.location = Str(join(",", new_list(counties(npi.d.location)))),
                 !.effectiveness = List(eff_list(npi.d.effectiveness))])

\* (mutant) no try/except around the NPI block: its exception leaves
\* return_valid_input
npis_uncaught(input) ==
    IF "npis" \notin DOMAIN input THEN Raise("KeyError")
    ELSE IF input.npis.t = "None" THEN List(<<>>)
    ELSE LET parsed == json_loads(input.npis)
         IN  IF parsed.t = "raise" THEN parsed
             ELSE IF parsed.t = "list"
             THEN LET out == [i \in 1..Len(parsed.l) |->
                                  npi_normalized(parsed.l[i])]
                  IN  IF \E i \in 1..Len(out) : out[i].t = "raise"
                      THEN Raise("TypeError")
                      ELSE List(out)
             ELSE Raise("TypeError")

\* The first try block: npis is [] for a null field, else the parsed list with
\* every NPI normalized; a TypeError, KeyError or JSONDecodeError raised
\* anywhere in the block (missing key, text that does not parse, a value that
\* cannot be iterated or indexed) makes npis None.
npis_block(input) ==
    IF "npis" \notin DOMAIN input THEN None
    ELSE IF input.npis.t = "None" THEN List(<<>>)
    ELSE LET parsed == json_loads(input.npis)
         IN  IF parsed.t = "raise" THEN None
             ELSE IF parsed.t = "list"
             THEN LET out == [i \in 1..Len(parsed.l) |->
                                  npi_normalized(parsed.l[i])]
                  IN  IF \E i \in 1..Len(out) : out[i].t = "raise"
                      THEN None
                      ELSE List(out)
             ELSE IF parsed.t = "str" /\ parsed.s = <<>> THEN parsed
             ELSE IF parsed.t = "dict" /\ parsed.d = NoDict THEN parsed
             ELSE None

\* The "Warning: County ... not found in mapping" lines the county loop of one
\* NPI prints: one per county not in the mapping, up to a county that raises
RECURSIVE county_warnings(_)
county_warnings(cs) ==
    IF cs = <<>> THEN 0
    ELSE IF ~Hashable(Head(cs)) THEN 0
    ELSE (IF in_texas_mapping(Head(cs)) THEN 0 ELSE 1)
             + county_warnings(Tail(cs))

npi_warnings(npi) ==
    IF npi.t # "dict" THEN 0
    ELSE IF "location" \notin DOMAIN npi.d THEN 0
    ELSE county_warnings(counties(npi.d.location))

\* ... and the NPI loop prints, up to the NPI that raises
RECURSIVE npis_warnings(_)
npis_warnings(l) ==
    IF l = <<>> THEN 0
    ELSE npi_warnings(Head(l))
           + (IF npi_normalized(Head(l)).t = "raise" THEN 0
              ELSE npis_warnings(Tail(l)))

\* the warnings return_valid_input(input) prints
warnings(input) ==
    IF "npis" \notin DOMAIN input THEN 0
    ELSE IF json_loads(input.npis).t # "list" THEN 0
    ELSE npis_warnings(json_loads(input.npis).l)

\* try: x = json.loads(value)  except (TypeError, json.JSONDecodeError): x = None
loads_or_None(value) ==
    LET x == json_loads(value)
    IN  IF x.t = "raise" THEN None ELSE x

\* if va is not None: va = [va] * 5
times_5(va) ==
    IF va.t # "None" THEN List([i \in 1..AgeGroups |-> va]) ELSE va

\* input['nu'].split(',') if isinstance(input['nu'], str) else input['nu']
nu_parameter(nu) ==
    IF isinstance_str(nu) THEN List(split_values(nu)) ELSE nu

\* json.loads(input.get('initial_infected', '[]')), outside any try block
initial_infected(input) ==
    IF "initial_infected" \notin DOMAIN input THEN List(<<>>)
    ELSE json_loads(input.initial_infected)

\* The keys read with input[...] outside a try block that catches KeyError:
\* those read before json.loads of initial_infected is evaluated (the four
\* try blocks, then 'parameters') and those read after it
KeysBeforeInitialInfected ==
    {"antiviral_stockpile", "vaccine_adherence", "vaccine_effectiveness",
     "vaccine_stockpile", "R0", "beta_scale", "tau", "kappa", "gamma", "chi",
     "rho", "nu"}
KeysAfterInitialInfected ==
    {"antiviral_effectiveness", "antiviral_wastage_factor",
     "vaccine_wastage_factor", "vaccine_pro_rata"}
SubscriptedKeys == KeysBeforeInitialInfected \cup KeysAfterInitialInfected

\* The dict literal input_file of return_valid_input
input_file(input) ==
    [output |-> "OUTPUT.json",
     number_of_realizations |-> "1",
     data |-> [
         population |-> "/PES/data/texas/county_age_matrix_small.csv",
         contact |-> "/PES/data/texas/contact_matrix.csv",
         flow |-> "/PES/data/texas/work_matrix_rel.csv",
         high_risk_ratios |-> "/PES/data/texas/high_risk_ratios.csv",
         flow_reduction |-> "/PES/data/texas/flow_reduction.csv",
         relative_susceptibility |->
             "/PES/data/texas/relative_susceptibility.csv",
         nu_value_matrix |-> "/PES/data/texas/nu_value_matrix.csv"],
     parameters |-> [R0 |-> input.R0, beta_scale |-> input.beta_scale,
                     tau |-> input.tau, kappa |-> input.kappa,
                     gamma |-> input.gamma, chi |-> input.chi,
                     rho |-> input.rho, nu |-> nu_parameter(input.nu)],
     initial_infected |-> initial_infected(input),
     non_pharma_interventions |-> npis_block(input),
     antivirals |-> [
         antiviral_effectiveness |-> input.antiviral_effectiveness,
         antiviral_wastage_factor |-> input.antiviral_wastage_factor,
         antiviral_stockpile |-> loads_or_None(input.antiviral_stockpile)],
     vaccines |-> [
         vaccine_wastage_factor |-> input.vaccine_wastage_factor,
         vaccine_pro_rata |-> input.vaccine_pro_rata,
         vaccine_adherence |->
             times_5(loads_or_None(input.vaccine_adherence)),
         vaccine_effectiveness |->
             times_5(loads_or_None(input.vaccine_effectiveness)),
         vaccine_stockpile |-> loads_or_None(input.vaccine_stockpile)]]

\* (mutant) a missing parameter is filled with a default instead of raising
return_valid_input_defaults(input) ==
    LET full == [k \in SubscriptedKeys \cup DOMAIN input |->
                    IF k \in DOMAIN input THEN input[k] ELSE Num(1)]
    IN  IF initial_infected(full).t = "raise" THEN initial_infected(full)
        ELSE Dict(input_file(full))

\* return_valid_input(input): the dict input_file, or the exception that
\* leaves the function: the first raised outside a try block that catches it
\* (the stockpile and vaccine fields are read first, then the dict literal is
\* evaluated in order)
return_valid_input(input) ==
    IF npis_block(input).t = "raise" THEN npis_block(input)
    ELSE IF \E k \in KeysBeforeInitialInfected : k \notin DOMAIN input
    THEN Raise("KeyError")
    ELSE IF initial_infected(input).t = "raise" THEN initial_infected(input)
    ELSE IF \E k \in KeysAfterInitialInfected : k \notin DOMAIN input
    THEN Raise("KeyError")
    ELSE Dict(input_file(input))

\* ---- the requests submitted ----------------------------------------------
\* A complete request, shaped like the one dash_frontend/test_app.py posts
\* (numbers stand for its floats)
ValidRequest ==
    [disease_name |-> Str(<<"Z">>),
     R0 |-> Num(2), beta_scale |-> Num(1), tau |-> Num(5), kappa |-> Num(1),
     gamma |-> Num(1), chi |-> Num(1), rho |-> Num(1), nu |-> Num(1),
     initial_infected |->
         JsonText(List(<<Dict([fips_id |-> Str(<<"5">>), cases |-> Num(100)])>>)),
     npis |-> JsonText(List(<<>>)),
     vaccine_effectiveness |-> Num(1), vaccine_adherence |-> Num(1),
     vaccine_stockpile |-> Num(1000), vaccine_wastage_factor |-> Num(1),
     vaccine_pro_rata |-> Str(<<"Z">>),
     antiviral_effectiveness |-> Num(1), antiviral_stockpile |-> Num(500),
     antiviral_wastage_factor |-> Num(1)]

\* the request without key k
Without(input, k) == [j \in (DOMAIN input) \ {k} |-> input[j]]

\* What the request fetched by run_job holds: a complete parameter set, or one
\* lacking a structurally required parameter (input['R0'] raises KeyError).
Inputs == {ValidRequest, Without(ValidRequest, "R0")}

\* Region names: two known to the mapping, an unknown one, a numeric id and the
\* empty name
Names == {<<"A">>, <<"B">>, <<"Z">>, <<"5">>, <<>>}
NameSeqs == UNION {[1..n -> Names] : n \in 0..MaxRegions}

\* The shapes in which a client writes the sequence of regions L as an NPI's
\* location: a list of names, the names joined by commas, and for a single
\* numeric id the number itself
Shapes(L) ==
    {List([i \in 1..Len(L) |-> Str(L[i])]), Str(join(",", L))}
    \cup (IF Len(L) = 1 /\ IsNumeral(L[1]) THEN {Num(int(L[1]))} ELSE {})

Locations ==
    UNION {Shapes(L) : L \in NameSeqs}
    \cup {None, List(<<Num(5)>>), List(<<List(<<>>)>>)}

five(x) == [i \in 1..AgeGroups |-> x]
FiveJoined == join(",", five(<<"5">>))

\* The shapes of a per-age-group field: scalar (number, or its text), the
\* comma-joined string, the list
ScalarShapes == {Num(5), Str(<<"5">>)}
GroupShapes == ScalarShapes \cup {Str(FiveJoined), List(five(Num(5)))}

Effectivenesses == GroupShapes \cup {None, Str(<<"5", ",", "5">>)}

BaseNpi ==
    [name |-> Str(<<"Z">>), day |-> Num(5), duration |-> Num(30),
     location |-> Str(<<"A">>), effectiveness |-> Str(FiveJoined)]

Npis ==
    {Dict([BaseNpi EXCEPT !.location = l]) : l \in Locations}
    \cup {Dict([BaseNpi EXCEPT !.effectiveness = e]) : e \in Effectivenesses}
    \cup {Dict(Without(BaseNpi, "location")),
          Dict(Without(BaseNpi, "effectiveness")), Num(5)}

\* texts that are no JSON
Malformed == {Str(<<>>), Str(<<"Z">>), Str(<<"5", ",", "5">>)}

NpisFields ==
    {JsonText(List(<<npi>>)) : npi \in Npis}
    \cup {JsonText(List(<<Dict(BaseNpi), npi>>)) :
             npi \in {Dict(BaseNpi), Dict(Without(BaseNpi, "location"))}}
    \cup {None, Num(5), Str(<<"5">>), JsonText(List(<<>>)), JsonText(None)}
    \cup Malformed

\* values of a field that json.loads reads
LoadedFields ==
    {None, JsonText(None), List(<<Num(5)>>), JsonText(List(<<Num(5)>>)),
     JsonText(List(five(Num(5))))}
    \cup ScalarShapes \cup Malformed

LoadedKeys ==
    {"antiviral_stockpile", "vaccine_stockpile", "vaccine_adherence",
     "vaccine_effectiveness", "initial_infected"}

\* The requests of the normalizer's checks: the complete request with one
\* field varied or left out
Requests ==
    {[ValidRequest EXCEPT !.npis = x] : x \in NpisFields}
    \cup {[ValidRequest EXCEPT ![k] = x] : k \in LoadedKeys, x \in LoadedFields}
    \cup {[ValidRequest EXCEPT !.nu = x] : x \in GroupShapes \cup {None}}
    \cup {Without(ValidRequest, k) : k \in DOMAIN ValidRequest}

\* ---- the result store ----------------------------------------------------
\* json.load of a completely written output file of simulator s for day d
json_load(d, f) == [day |-> d, total_summary |-> f.src]

\* (mutant) the collection is replaced by the new document
insert_one_replaces(col, mydict, t, n) ==
    <<[_id |-> <<t, n>>, day |-> mydict.day,
       total_summary |-> mydict.total_summary]>>

\* mycol.insert_one(mydict): the driver adds an ObjectId made by the inserting
\* process (process-unique part, per-process counter) and appends the document.
insert_one(col, mydict, t, n) ==
    Append(col, [_id |-> <<t, n>>, day |-> mydict.day,
                 total_summary |-> mydict.total_summary])

\* mycol.find_one({'day': day}): the first matching document in natural order
Matching(col, day) == {i \in 1..Len(col) : col[i].day = day}

\* (mutant) the last matching document instead of the first
find_one_last(col, day) ==
    LET m == Matching(col, day)
    IN  CHOOSE i \in m : \A j \in m : i >= j

find_one(col, day) ==
    LET m == Matching(col, day)
    IN  CHOOSE i \in m : \A j \in m : i <= j

\* get_output(request, day): 404 when find_one gives None, else the document
\* with its _id deleted and status 200
get_output(col, day) ==
    IF Matching(col, day) = {}
    THEN [day |-> day, status |-> 404, body |-> <<>>]
    ELSE LET mydoc == col[find_one(col, day)]
         IN  [day |-> day, status |-> 200,
              body |-> [k \in (DOMAIN mydoc) \ {"_id"} |-> mydoc[k]]]

\* ---- the API client (dash_frontend/api_client.py) -------------------------
\* What self.session.get(url) meets: an exception of requests (exc) with no
\* response, or the response of the server
NoResponse == [day |-> NoDay, status |-> 0, body |-> <<>>]
Met(exc, response) == [exc |-> exc, response |-> response]

\* response.raise_for_status(): HTTPError for a status from 400 to 599
raise_for_status(response) ==
    IF response.status >= 400 /\ response.status < 600 THEN "HTTPError"
    ELSE "none"

\* get_simulation_output(day), given what its request met.  An exception of
\* session.get reaches the except clause before `response` is assigned: the
\* clause reads response.status_code and raises UnboundLocalError.  With a
\* response, an HTTPError of raise_for_status is handled (logged unless 404)
\* and None is returned; else response.json() is returned.
get_simulation_output(met) ==
    IF met.exc # "none" THEN Raise("UnboundLocalError")
    ELSE IF raise_for_status(met.response) # "none" THEN None
    ELSE Dict(met.response.body)

\* no call made yet
NoCall == [met |-> Met("none", NoResponse), result |-> None]

\* ---- initial state -------------------------------------------------------
Init ==
    /\ broker = <<>>
    /\ next_id = 1
    /\ revoked = {}
    /\ pc = [t \in Tasks |-> "none"]
    /\ start_elapsed = [t \in Tasks |-> 0]
    /\ processed_files = [t \in Tasks |-> 0]
    /\ files = [t \in Tasks |-> NoPick]
    /\ error_log = [t \in Tasks |-> 0]
    /\ warning_log = [t \in Tasks |-> 0]
    /\ sim = [t \in Tasks |-> NoSim]
    /\ outdir = [d \in Days |-> NoFile]
    /\ INPUT_json = NoConfig
    /\ mycol = <<>>
    /\ event_data = <<>>
    /\ simulation_state = [isRunning |-> FALSE, taskId |-> 0]
    /\ api_call = NoCall

\* ---- control surface (views.py) ------------------------------------------
\* (mutant) a submit while a job is waiting or running starts nothing
run_job_deduplicates ==
    /\ next_id <= MaxJobs
    /\ \A t \in Tasks : pc[t] \notin Active \cup {"queued"}
    /\ \E input \in Inputs :
          broker' = Append(broker, [id |-> next_id, input |-> input])
    /\ pc' = [pc EXCEPT ![next_id] = "queued"]
    /\ next_id' = next_id + 1
    /\ UNCHANGED <<warning_log, error_log, revoked, start_elapsed, processed_files, files, sim, outdir,
                   INPUT_json, mycol, event_data, simulation_state, api_call>>

\* run_job: task = run_pes.delay(input); 202 with the task id
run_job ==
    /\ next_id <= MaxJobs
    /\ \E input \in Inputs :
          broker' = Append(broker, [id |-> next_id, input |-> input])
    /\ pc' = [pc EXCEPT ![next_id] = "queued"]
    /\ next_id' = next_id + 1
    /\ UNCHANGED <<warning_log, error_log, revoked, start_elapsed, processed_files, files, sim, outdir,
                   INPUT_json, mycol, event_data, simulation_state, api_call>>

\* signal of task.revoke(terminate=True, signal='SIGKILL'): sent to the pool
\* process that executes the task
revoke_signal == "SIGKILL"
\* signame of on_parent_exit('SIGHUP'): what prctl(PR_SET_PDEATHSIG, signum)
\* makes the kernel send to the simulator when its parent dies
on_parent_exit_signame == "SIGHUP"

\* (mutant) the child has set no parent-death signal
ParentDies_no_signal(t) == sim

\* The pool process running task t dies of SIGKILL: the kernel raises the
\* parent-death signal of a child that has set one (prctl PR_SET_PDEATHSIG).
ParentDies(t) ==
    [sim EXCEPT ![t].sig = (sim[t].st = "running" /\ sim[t].pdeathsig)
                            \/ sim[t].sig]

\* (mutant) revoke() without terminate=True: the running task is left alone
delete_job_no_terminate(task_id) ==
    /\ task_id \notin revoked
    /\ pc[task_id] # "none"
    /\ revoked' = revoked \cup {task_id}
    /\ UNCHANGED <<warning_log, pc, sim, error_log, broker, next_id, start_elapsed,
                   processed_files, files, outdir, INPUT_json, mycol, event_data, simulation_state, api_call>>

\* (mutant) cancelling also deletes the records the cancelled job inserted
delete_job_drops_records(task_id) ==
    /\ task_id \notin revoked
    /\ pc[task_id] # "none"
    /\ revoked' = revoked \cup {task_id}
    /\ mycol' = SelectSeq(mycol, LAMBDA doc : doc._id[1] # task_id)
    /\ IF pc[task_id] \in Active
       THEN /\ pc' = [pc EXCEPT ![task_id] = "REVOKED"]
            /\ sim' = ParentDies(task_id)
       ELSE UNCHANGED <<pc, sim>>
    /\ UNCHANGED <<warning_log, error_log, broker, next_id, start_elapsed, processed_files,
                   files, outdir, INPUT_json, event_data, simulation_state, api_call>>

\* delete_job: AsyncResult(task_id).revoke(terminate=True, signal='SIGKILL'):
\* the workers remember the id as revoked, and the pool process executing the
\* task, if any, is killed.
delete_job(task_id) ==
    /\ task_id \notin revoked
    /\ pc[task_id] # "none"
    /\ revoked' = revoked \cup {task_id}
    /\ IF pc[task_id] \in Active
       THEN /\ pc' = [pc EXCEPT ![task_id] = "REVOKED"]
            /\ sim' = ParentDies(task_id)
       ELSE UNCHANGED <<pc, sim>>
    /\ UNCHANGED <<warning_log, error_log, broker, next_id, start_elapsed, processed_files, files,
                   outdir, INPUT_json, mycol, event_data, simulation_state, api_call>>

\* (mutant) the queue is purged but the collection is not cleared
reset_state_purge_only ==
    /\ broker' = <<>>
    /\ pc' = [t \in Tasks |-> IF pc[t] = "queued" THEN "dropped" ELSE pc[t]]
    /\ UNCHANGED <<warning_log, mycol, error_log, next_id, revoked, start_elapsed,
                   processed_files, files, sim, outdir, INPUT_json, event_data, simulation_state, api_call>>

\* reset_state: mycol.delete_many({}) and app.control.purge(), which discards
\* the messages waiting in the queue
reset_state ==
    /\ mycol' = <<>>
    /\ broker' = <<>>
    /\ pc' = [t \in Tasks |-> IF pc[t] = "queued" THEN "dropped" ELSE pc[t]]
    /\ UNCHANGED <<warning_log, error_log, next_id, revoked, start_elapsed, processed_files, files,
                   sim, outdir, INPUT_json, event_data, simulation_state, api_call>>

\* get_output handled as a step: a read of the store that changes nothing; its
\* response in a state is get_output(mycol, day)
get_output_request(day) ==
    /\ get_output(mycol, day).status \in {200, 404}
    /\ UNCHANGED vars

\* ---- the worker: run_pes (pes_task.py) -----------------------------------
\* return_valid_input(input) raises: run_pes ends there and the task fails
return_valid_input_raises(input) == return_valid_input(input).t = "raise"

\* A free pool process takes the next message.  A revoked task is discarded.
\* Otherwise run_pes starts: return_valid_input(input), then json.dump of its
\* result to INPUT.json.
run_pes_start ==
    /\ broker # <<>>
    /\ Cardinality({u \in Tasks : pc[u] \in Active}) < worker_concurrency
    /\ LET msg == Head(broker)
           t == msg.id
       IN  /\ broker' = Tail(broker)
           /\ IF t \in revoked
              THEN /\ pc' = [pc EXCEPT ![t] = "dropped"]
                   /\ UNCHANGED <<INPUT_json, warning_log>>
              ELSE /\ warning_log' = [warning_log EXCEPT
                                         ![t] = @ + warnings(msg.input)]
                   /\ IF return_valid_input_raises(msg.input)
                      THEN /\ pc' = [pc EXCEPT ![t] = "FAILURE"]
                           /\ UNCHANGED INPUT_json
                      ELSE /\ pc' = [pc EXCEPT ![t] = "popen"]
                           /\ INPUT_json' =
                                 [id |-> t,
                                  input_file |-> return_valid_input(msg.input).d]
    /\ UNCHANGED <<error_log, next_id, revoked, start_elapsed, processed_files,
                   files, sim, outdir, mycol, event_data, simulation_state, api_call>>

\* subprocess.Popen(..., preexec_fn=on_parent_exit('SIGHUP')): fork; the parent
\* waits inside Popen until the child has exec'ed
Popen(t) ==
    /\ pc[t] = "popen"
    /\ sim' = [sim EXCEPT ![t].st = "forked"]
    /\ pc' = [pc EXCEPT ![t] = "popen_wait"]
    /\ UNCHANGED <<warning_log, error_log, broker, next_id, revoked, start_elapsed, processed_files,
                   files, outdir, INPUT_json, mycol, event_data, simulation_state, api_call>>

\* (mutant) the launch waits for the child, as subprocess.run does: the parent
\* goes on when the simulator has exited
set_parent_exit_signal_waits(t) ==
    /\ sim[t].st = "forked"
    /\ sim' = [sim EXCEPT ![t].st = "dead", ![t].pdeathsig = TRUE]
    /\ IF pc[t] = "popen_wait"
       THEN /\ pc' = [pc EXCEPT ![t] = "loop"]
            /\ start_elapsed' = [start_elapsed EXCEPT ![t] = 0]
            /\ processed_files' = [processed_files EXCEPT ![t] = 0]
       ELSE UNCHANGED <<pc, start_elapsed, processed_files>>
    /\ UNCHANGED <<warning_log, error_log, broker, next_id, revoked, files, outdir, INPUT_json, mycol, event_data, simulation_state, api_call>>

\* In the child: set_parent_exit_signal() calls prctl(PR_SET_PDEATHSIG, SIGHUP),
\* then the simulator is exec'ed; Popen returns in the parent (if it still
\* lives), start_time is taken and the harvester loop begins.
set_parent_exit_signal(t) ==
    /\ sim[t].st = "forked"
    /\ sim' = [sim EXCEPT ![t].st = "running", ![t].pdeathsig = TRUE]
    /\ IF pc[t] = "popen_wait"
       THEN /\ pc' = [pc EXCEPT ![t] = "loop"]
            /\ start_elapsed' = [start_elapsed EXCEPT ![t] = 0]
            /\ processed_files' = [processed_files EXCEPT ![t] = 0]
       ELSE UNCHANGED <<pc, start_elapsed, processed_files>>
    /\ UNCHANGED <<warning_log, error_log, broker, next_id, revoked, files, outdir, INPUT_json, mycol, event_data, simulation_state, api_call>>

\* (mutant) the cap is never checked
AfterIteration_no_cap(n) == "loop"

\* The end of a loop iteration: `if processed_files >= 90: break`, else back to
\* the while test
AfterIteration(n) == IF n >= MaxProcessed THEN "SUCCESS" ELSE "loop"

\* while time.time() - start_time < max_wait_time: files = glob(...);
\* time.sleep(0.5).  glob's order is the directory's: files[0] is any file
\* present.  With no file the iteration ends here.
Poll(t) ==
    /\ pc[t] = "loop"
    /\ IF start_elapsed[t] >= max_wait_time
       THEN /\ pc' = [pc EXCEPT ![t] = "SUCCESS"]
            /\ UNCHANGED <<start_elapsed, files>>
       ELSE /\ start_elapsed' = [start_elapsed EXCEPT ![t] = @ + 1]
            /\ LET present == {d \in Days : outdir[d].st # "none"}
               IN  IF present = {}
                   THEN /\ files' = [files EXCEPT ![t] = NoPick]
                        /\ pc' = [pc EXCEPT
                                    ![t] = AfterIteration(processed_files[t])]
                   ELSE /\ \E d \in present :
                              files' = [files EXCEPT
                                  ![t] = [name |-> d, src |-> outdir[d].src]]
                        /\ pc' = [pc EXCEPT ![t] = "picked"]
    /\ UNCHANGED <<warning_log, error_log, broker, next_id, revoked, processed_files, sim, outdir,
                   INPUT_json, mycol, event_data, simulation_state, api_call>>

\* (mutant) a file that failed to parse is counted as processed
Ingest_counts_failures(t) ==
    /\ pc[t] = "picked"
    /\ start_elapsed' = [start_elapsed EXCEPT ![t] = @ + 2]
    /\ LET f == outdir[files[t].name]
       IN  IF f.st = "complete"
           THEN /\ mycol' = insert_one(mycol, json_load(files[t].name, f), t,
                                       processed_files[t])
                /\ pc' = [pc EXCEPT ![t] = "remove"]
                /\ UNCHANGED error_log
           ELSE /\ pc' = [pc EXCEPT ![t] = "except"]
                /\ error_log' = [error_log EXCEPT ![t] = @ + 1]
                /\ UNCHANGED mycol
    /\ processed_files' = [processed_files EXCEPT ![t] = @ + 1]
    /\ UNCHANGED <<warning_log, broker, next_id, revoked, files, sim, outdir, INPUT_json, event_data, simulation_state, api_call>>

\* (mutant) no try/except around the ingestion: a file that does not parse
\* fails the task
Ingest_uncaught(t) ==
    /\ pc[t] = "picked"
    /\ start_elapsed' = [start_elapsed EXCEPT ![t] = @ + 2]
    /\ LET f == outdir[files[t].name]
       IN  IF f.st = "complete"
           THEN /\ mycol' = insert_one(mycol, json_load(files[t].name, f), t,
                                       processed_files[t])
                /\ processed_files' = [processed_files EXCEPT ![t] = @ + 1]
                /\ pc' = [pc EXCEPT ![t] = "remove"]
           ELSE /\ pc' = [pc EXCEPT ![t] = "FAILURE"]
                /\ UNCHANGED <<mycol, processed_files>>
    /\ UNCHANGED <<warning_log, error_log, broker, next_id, revoked, files, sim, outdir,
                   INPUT_json, event_data, simulation_state, api_call>>

\* time.sleep(1); open(files[0]); json.load; mycol.insert_one; processed_files
\* += 1.  A missing file (FileNotFoundError) or a file that does not parse
\* (still being written) raises into the except clause.
Ingest(t) ==
    /\ pc[t] = "picked"
    /\ start_elapsed' = [start_elapsed EXCEPT ![t] = @ + 2]
    /\ LET f == outdir[files[t].name]
       IN  IF f.st = "complete"
           THEN /\ mycol' = insert_one(mycol, json_load(files[t].name, f), t,
                                       processed_files[t])
                /\ processed_files' = [processed_files EXCEPT ![t] = @ + 1]
                /\ pc' = [pc EXCEPT ![t] = "remove"]
                /\ UNCHANGED error_log
           ELSE /\ pc' = [pc EXCEPT ![t] = "except"]
                /\ error_log' = [error_log EXCEPT ![t] = @ + 1]
                /\ UNCHANGED <<mycol, processed_files>>
    /\ UNCHANGED <<warning_log, broker, next_id, revoked, files, sim, outdir, INPUT_json, event_data, simulation_state, api_call>>

\* (mutant) the try block ends without os.remove
Remove_keeps_file(t) ==
    /\ pc[t] = "remove"
    /\ pc' = [pc EXCEPT ![t] = AfterIteration(processed_files[t])]
    /\ UNCHANGED <<warning_log, outdir, error_log, broker, next_id, revoked, start_elapsed,
                   processed_files, files, sim, INPUT_json, mycol, event_data, simulation_state, api_call>>

\* os.remove(files[0]) at the end of the try block; FileNotFoundError is caught
\* by the except clause, which prints the error
Remove(t) ==
    /\ pc[t] = "remove"
    /\ IF outdir[files[t].name].st # "none"
       THEN /\ outdir' = [outdir EXCEPT ![files[t].name] = NoFile]
            /\ pc' = [pc EXCEPT ![t] = AfterIteration(processed_files[t])]
            /\ UNCHANGED error_log
       ELSE /\ pc' = [pc EXCEPT ![t] = "except"]
            /\ error_log' = [error_log EXCEPT ![t] = @ + 1]
            /\ UNCHANGED outdir
    /\ UNCHANGED <<warning_log, broker, next_id, revoked, start_elapsed, processed_files,
                   files, sim, INPUT_json, mycol, event_data, simulation_state, api_call>>

\* (mutant) the except clause tries the same file again
Except_retries(t) ==
    /\ pc[t] = "except"
    /\ pc' = [pc EXCEPT ![t] = "picked"]
    /\ UNCHANGED <<warning_log, outdir, error_log, broker, next_id, revoked, start_elapsed,
                   processed_files, files, sim, INPUT_json, mycol, event_data, simulation_state, api_call>>

\* (mutant) the except clause only logs and leaves the file
Except_keeps_file(t) ==
    /\ pc[t] = "except"
    /\ pc' = [pc EXCEPT ![t] = AfterIteration(processed_files[t])]
    /\ UNCHANGED <<warning_log, outdir, error_log, broker, next_id, revoked, start_elapsed,
                   processed_files, files, sim, INPUT_json, mycol, event_data, simulation_state, api_call>>

\* except Exception: os.remove(files[0]); a FileNotFoundError raised here
\* leaves run_pes and fails the task
Except(t) ==
    /\ pc[t] = "except"
    /\ IF outdir[files[t].name].st # "none"
       THEN /\ outdir' = [outdir EXCEPT ![files[t].name] = NoFile]
            /\ pc' = [pc EXCEPT ![t] = AfterIteration(processed_files[t])]
       ELSE /\ pc' = [pc EXCEPT ![t] = "FAILURE"]
            /\ UNCHANGED outdir
    /\ UNCHANGED <<warning_log, error_log, broker, next_id, revoked, start_elapsed, processed_files,
                   files, sim, INPUT_json, mycol, event_data, simulation_state, api_call>>

\* ---- the simulator process (contract of /PES/src/simulator.py) -----------
\* The simulator opens the output file of its next day and starts writing.  A
\* process with a fatal signal pending does not get back to user code.
SimBeginWrite(s) ==
    /\ sim[s].st = "running"
    /\ ~sim[s].sig
    /\ ~sim[s].writing
    /\ sim[s].day < SimDays
    /\ outdir' = [outdir EXCEPT ![sim[s].day] = [src |-> s, st |-> "partial"]]
    /\ sim' = [sim EXCEPT ![s].writing = TRUE]
    /\ UNCHANGED <<warning_log, error_log, broker, next_id, revoked, pc, start_elapsed,
                   processed_files, files, INPUT_json, mycol, event_data, simulation_state, api_call>>

\* ... and finishes it (a file unlinked meanwhile stays unlinked); after the
\* last day the process exits
SimEndWrite(s) ==
    /\ sim[s].st = "running"
    /\ ~sim[s].sig
    /\ sim[s].writing
    /\ LET d == sim[s].day
       IN  /\ outdir' = IF outdir[d] = [src |-> s, st |-> "partial"]
                        THEN [outdir EXCEPT ![d].st = "complete"]
                        ELSE outdir
           /\ sim' = [sim EXCEPT ![s].writing = FALSE, ![s].day = d + 1,
                         ![s].st = IF d + 1 = SimDays THEN "dead" ELSE "running"]
    /\ UNCHANGED <<warning_log, error_log, broker, next_id, revoked, pc, start_elapsed,
                   processed_files, files, INPUT_json, mycol, event_data, simulation_state, api_call>>

\* The simulator fails at start-up (its script, an import or the config is
\* unusable): the process exits before it has opened any output file
SimCrash(s) ==
    /\ sim[s].st = "running"
    /\ ~sim[s].sig
    /\ ~sim[s].writing
    /\ sim[s].day = 0
    /\ sim' = [sim EXCEPT ![s].st = "dead"]
    /\ UNCHANGED <<warning_log, error_log, broker, next_id, revoked, pc, start_elapsed,
                   processed_files, files, outdir, INPUT_json, mycol, event_data, simulation_state, api_call>>

\* The pending SIGHUP is delivered: its default action ends the process
SigDeliver(s) ==
    /\ sim[s].st = "running"
    /\ sim[s].sig
    /\ sim' = [sim EXCEPT ![s].st = "dead"]
    /\ UNCHANGED <<warning_log, error_log, broker, next_id, revoked, pc, start_elapsed,
                   processed_files, files, outdir, INPUT_json, mycol, event_data, simulation_state, api_call>>

\* ---- specification -------------------------------------------------------
JobStep(t) ==
    \/ Popen(t)
    \/ set_parent_exit_signal(t)
    \/ Poll(t)
    \/ Ingest(t)
    \/ Remove(t)
    \/ Except(t)

SimStep(s) ==
    \/ SimBeginWrite(s)
    \/ SimEndWrite(s)
    \/ SimCrash(s)

Next ==
    \/ run_job
    \/ \E task_id \in Tasks : delete_job(task_id)
    \/ reset_state
    \/ \E day \in QueryDays : get_output_request(day)
    \/ run_pes_start
    \/ \E t \in Tasks : JobStep(t)
    \/ \E s \in Tasks : SimStep(s)
    \/ \E s \in Tasks : SigDeliver(s)

Spec == Init /\ [][Next]_vars


FairNext ==
    /\ \A t \in Tasks : WF_vars(JobStep(t))
    /\ \A s \in Tasks : WF_vars(SigDeliver(s))

\* The pool process of a started job and the kernel's signal delivery are
\* always scheduled; nothing is assumed of the clients or of the simulator.
FairSpec == Spec /\ FairNext

\* ---- one job, any request --------------------------------------------------
\* The state after run_job has submitted one job whose request is any of
\* Requests
RequestInit ==
    /\ \E input \in Requests : broker = <<[id |-> 1, input |-> input]>>
    /\ next_id = 2
    /\ revoked = {}
    /\ pc = [t \in Tasks |-> IF t = 1 THEN "queued" ELSE "none"]
    /\ start_elapsed = [t \in Tasks |-> 0]
    /\ processed_files = [t \in Tasks |-> 0]
    /\ files = [t \in Tasks |-> NoPick]
    /\ error_log = [t \in Tasks |-> 0]
    /\ warning_log = [t \in Tasks |-> 0]
    /\ sim = [t \in Tasks |-> NoSim]
    /\ outdir = [d \in Days |-> NoFile]
    /\ INPUT_json = NoConfig
    /\ mycol = <<>>
    /\ event_data = <<>>
    /\ simulation_state = [isRunning |-> FALSE, taskId |-> 0]
    /\ api_call = NoCall

\* The worker runs the job; its simulator writes its days
RequestNext ==
    \/ run_pes_start
    \/ \E t \in Tasks : JobStep(t)
    \/ \E s \in Tasks : SimStep(s)

RequestSpec == RequestInit /\ [][RequestNext]_vars

\* ---- the polling client (dash_frontend/app.py) -----------------------------
\* fetch_simulation_data, the callback of the dashboard's interval timer: while
\* the simulation is marked running it requests the day after the last one it
\* holds, counting from 1 (current_day = len(event_data) + 1), appends the
\* day on a 200 and returns event_data as it is on a 404, on any other answer
\* and when the request raised.
fetch_simulation_data ==
    /\ LET current_day == Len(event_data) + 1
           response == get_output(mycol, current_day)
       IN  IF simulation_state.isRunning /\ response.status = 200
           THEN event_data' =
                  Append(event_data,
                         [day |-> response.body.day,
                          total_summary |-> response.body.total_summary])
           ELSE event_data' = event_data
    /\ UNCHANGED <<broker, next_id, revoked, pc, start_elapsed, processed_files,
                   files, error_log, warning_log, sim, outdir, INPUT_json,
                   mycol, simulation_state, api_call>>

\* toggle_simulation, the callback of the Play/Pause button.  Not running
\* (Play): the request is posted and run, run_job enqueues the job, and the
\* store takes isRunning True and the new task id; event-data is not an output
\* of the callback and no reset is requested.  Running (Pause): the task of
\* the store's taskId is cancelled through delete_job and isRunning becomes
\* False; the taskId stays.
toggle_simulation ==
    /\ IF ~simulation_state.isRunning
       THEN /\ next_id <= MaxJobs
            /\ broker' = Append(broker, [id |-> next_id, input |-> ValidRequest])
            /\ pc' = [pc EXCEPT ![next_id] = "queued"]
            /\ next_id' = next_id + 1
            /\ simulation_state' = [isRunning |-> TRUE, taskId |-> next_id]
            /\ UNCHANGED <<revoked, sim>>
       ELSE /\ simulation_state' = [simulation_state EXCEPT !.isRunning = FALSE]
            /\ LET task_id == simulation_state.taskId
               IN  /\ revoked' = revoked \cup {task_id}
                   /\ IF pc[task_id] \in Active
                      THEN /\ pc' = [pc EXCEPT ![task_id] = "REVOKED"]
                           /\ sim' = ParentDies(task_id)
                      ELSE UNCHANGED <<pc, sim>>
            /\ UNCHANGED <<broker, next_id>>
    /\ UNCHANGED <<warning_log, error_log, start_elapsed, processed_files,
                   files, outdir, INPUT_json, mycol, event_data, api_call>>

\* The backend with the dashboard as its client: the button and the timer
ClientNext ==
    \/ toggle_simulation
    \/ fetch_simulation_data
    \/ run_pes_start
    \/ \E t \in Tasks : JobStep(t)
    \/ \E s \in Tasks : SimStep(s)
    \/ \E s \in Tasks : SigDeliver(s)

ClientSpec == Init /\ [][ClientNext]_vars

\* ---- a client of PandemicAPIClient -----------------------------------------
\* api_client.get_simulation_output(day), as fetch_simulation_data of
\* app_old.py calls it: the request is answered by get_output, or by a server
\* error, or it gets no response at all (connection refused, timeout)
get_simulation_output_call(day) ==
    /\ \E kind \in {"answer", "server error", "ConnectionError"} :
          LET met == CASE kind = "answer" ->
                             Met("none", get_output(mycol, day))
                       [] kind = "server error" ->
                             Met("none", [NoResponse EXCEPT !.day = day,
                                                           !.status = 500])
                       [] kind = "ConnectionError" ->
                             Met("ConnectionError", NoResponse)
          IN  api_call' = [met |-> met, result |-> get_simulation_output(met)]
    /\ UNCHANGED <<broker, next_id, revoked, pc, start_elapsed, processed_files,
                   files, error_log, warning_log, sim, outdir, INPUT_json,
                   mycol, event_data, simulation_state>>

\* One job run by the worker, and a client asking for its days
ApiNext ==
    \/ RequestNext
    \/ \E day \in QueryDays : get_simulation_output_call(day)

ApiSpec == RequestInit /\ [][ApiNext]_vars

\* ---- two jobs in flight ----------------------------------------------------
\* The state in which every submitted job has been taken by a pool process of
\* its own (a prefork worker with that many processes): each run_pes call has
\* written its config, the last one last, and stands before Popen
SharedInit ==
    /\ broker = <<>>
    /\ next_id = MaxJobs + 1
    /\ revoked = {}
    /\ pc = [t \in Tasks |-> "popen"]
    /\ start_elapsed = [t \in Tasks |-> 0]
    /\ processed_files = [t \in Tasks |-> 0]
    /\ files = [t \in Tasks |-> NoPick]
    /\ error_log = [t \in Tasks |-> 0]
    /\ warning_log = [t \in Tasks |-> 0]
    /\ sim = [t \in Tasks |-> NoSim]
    /\ outdir = [d \in Days |-> NoFile]
    /\ INPUT_json = [id |-> MaxJobs,
                     input_file |-> return_valid_input(ValidRequest).d]
    /\ mycol = <<>>
    /\ event_data = <<>>
    /\ simulation_state = [isRunning |-> FALSE, taskId |-> 0]
    /\ api_call = NoCall

\* The pool processes run their jobs side by side on the one exchange
\* directory and the one collection; the simulators write their days
SharedNext ==
    \/ \E t \in Tasks : JobStep(t)
    \/ \E s \in Tasks : SimStep(s)

SharedSpec == SharedInit /\ [][SharedNext]_vars

\* ---- a store that can fail ---------------------------------------------------
\* mycol.insert_one(mydict) raises (the server is unreachable, the write is
\* rejected): the file was read and parsed, nothing is stored, processed_files
\* is not incremented and control goes to the except clause, which prints the
\* error
InsertRaises(t) ==
    /\ pc[t] = "picked"
    /\ outdir[files[t].name].st = "complete"
    /\ start_elapsed' = [start_elapsed EXCEPT ![t] = @ + 2]
    /\ pc' = [pc EXCEPT ![t] = "except"]
    /\ error_log' = [error_log EXCEPT ![t] = @ + 1]
    /\ UNCHANGED <<warning_log, broker, next_id, revoked, processed_files,
                   files, sim, outdir, INPUT_json, mycol, event_data, simulation_state, api_call>>

\* One job, any request, with a store whose insert can fail at any time
StoreNext ==
    \/ RequestNext
    \/ \E t \in Tasks : InsertRaises(t)

StoreSpec == RequestInit /\ [][StoreNext]_vars

\* ---- properties ----------------------------------------------------------
DaysIn(col) == {col[i].day : i \in 1..Len(col)}
DocsBy(col, t) == {i \in 1..Len(col) : col[i]._id[1] = t}
\* the simulator of task s has finished writing its file of day d
Written(s, d) == s \in Tasks /\ sim[s].day > d
\* the step is a successful ingestion by t (the only way from picked to remove)
Ingested(t) == pc[t] = "picked" /\ pc'[t] = "remove"

PickedPresent(t) ==
    /\ files[t] # NoPick
    /\ outdir[files[t].name].st # "none"
    /\ outdir[files[t].name].src = files[t].src

\* C3: when a loop iteration of the harvester that picked a file has ended
\* (back at the while test, or out of the loop through the cap), that file is
\* no longer in the exchange directory, whether it was inserted or not.
C3_PickedFileRemoved ==
    \A t \in Tasks : pc[t] \in {"loop", "SUCCESS"} => ~PickedPresent(t)

\* C3 witness: an iteration that failed to parse its file has ended, and one
\* that inserted its file has ended
C3_Witness ==
    \E t \in Tasks :
        /\ pc[t] = "loop"
        /\ files[t] # NoPick
        /\ error_log[t] = 1
        /\ processed_files[t] = 1

\* C4: an output file that does not parse takes the harvester into the except
\* clause without a record and without counting it; the except clause removes
\* the file and the loop goes on; the task fails inside the loop only when the
\* file to remove is already gone; and a complete file picked later is still
\* inserted and counted.
C4_BadFileNotFatal ==
    [][\A t \in Tasks :
        /\ (pc[t] = "picked" /\ outdir[files[t].name].st = "partial"
              /\ pc'[t] \notin {"picked", "REVOKED"}) =>
                 /\ pc'[t] = "except"
                 /\ mycol' = mycol
                 /\ processed_files'[t] = processed_files[t]
        /\ (pc[t] = "except" /\ outdir[files[t].name].st # "none"
              /\ pc'[t] \notin {"except", "REVOKED"}) =>
                 /\ pc'[t] \in {"loop", "SUCCESS"}
                 /\ outdir'[files[t].name].st = "none"
                 /\ mycol' = mycol
                 /\ processed_files'[t] = processed_files[t]
        /\ (pc[t] \in Harvesting /\ pc'[t] = "FAILURE") =>
                 /\ pc[t] = "except"
                 /\ outdir[files[t].name].st = "none"
        /\ (pc[t] = "picked" /\ outdir[files[t].name].st = "complete"
              /\ pc'[t] \notin {"picked", "REVOKED"}) =>
                 /\ Len(mycol') = Len(mycol) + 1
                 /\ mycol'[Len(mycol')].day = files[t].name
                 /\ processed_files'[t] = processed_files[t] + 1]_vars

\* C4 witness: a job that has discarded an unparsable file has just inserted a
\* later file
C4_Witness ==
    \E t \in Tasks :
        /\ pc[t] = "remove"
        /\ error_log[t] >= 1
        /\ processed_files[t] = 1
        /\ Cardinality(DocsBy(mycol, t)) = 1

C6_CancelledJobAddsNothing ==
    /\ [](\A t \in revoked : pc[t] \notin Active)
    /\ [][\A t \in revoked :
            Cardinality(DocsBy(mycol', t)) <= Cardinality(DocsBy(mycol, t))]_vars
    /\ [][((\A t \in Tasks : pc[t] \in Active \cup {"queued"} => t \in revoked)
            /\ next_id' = next_id) =>
                \A d \in QueryDays :
                    get_output(mycol, d).status = 404 =>
                        get_output(mycol', d).status = 404]_vars

\* C6 witness: a job was cancelled in its loop after it had ingested a day,
\* and a complete file of a day that is not stored lies in the directory
C6_Witness ==
    \E t \in Tasks, d \in Days :
        /\ pc[t] = "REVOKED"
        /\ processed_files[t] >= 1
        /\ outdir[d].st = "complete"
        /\ get_output(mycol, d).status = 404
        /\ \A u \in Tasks \ {t} : pc[u] = "none"

\* C7: reset_state ends the run: after it no run_pes is executing and no
\* simulator keeps running without a termination signal pending.
C7_ResetTerminatesRun ==
    [][reset_state =>
        \A t \in Tasks :
            /\ pc'[t] \notin Active
            /\ (sim'[t].st \in {"forked", "running"} => sim'[t].sig)]_vars

\* C8: after reset_state, get_day answers 404 for every day that was stored
\* before it.
C8_ResetThenNotFound ==
    [][reset_state =>
        \A d \in DaysIn(mycol) : get_output(mycol', d).status = 404]_vars

\* C8 witness: the store is empty although a job has ingested a day
C8_Witness ==
    /\ mycol = <<>>
    /\ \E t \in Tasks : processed_files[t] >= 1 /\ pc[t] \in Harvesting
    /\ \A d \in QueryDays : get_output(mycol, d).status = 404

\* C9 (as stated): in every state the days stored are a gap-free prefix
\* {0..k}.
C9_StoredDaysArePrefix ==
    \A d \in DaysIn(mycol) : \A e \in 0..d : e \in DaysIn(mycol)

\* C9 (amended): the set of days stored only grows until an explicit reset: no
\* step but reset_state makes a stored day not found.
C9_DaysGrowUntilReset ==
    [][DaysIn(mycol) \subseteq DaysIn(mycol') \/ reset_state]_vars

\* C9 witness: day 1 is stored, day 0 is not and can no longer come: its file
\* is gone, every simulator has stopped and no job is left
C9_Witness ==
    /\ DaysIn(mycol) = {1}
    /\ outdir[0].st = "none"
    /\ next_id > MaxJobs
    /\ \A t \in Tasks : pc[t] \in Terminal /\ sim[t].st \in {"none", "dead"}

InsertedBy(t) ==
    /\ Len(mycol') = Len(mycol) + 1
    /\ mycol'[Len(mycol')]._id[1] = t
    /\ \A i \in 1..Len(mycol) : mycol'[i] = mycol[i]

C12_OnlyResetDestroys ==
    /\ [][reset_state
            \/ /\ Len(mycol) <= Len(mycol')
               /\ \A i \in 1..Len(mycol) : mycol'[i] = mycol[i]]_vars
    /\ [][(\/ \E t \in Tasks : pc[t] \in Active /\ pc'[t] \in Terminal
           \/ next_id' # next_id
           \/ revoked' # revoked) =>
                /\ mycol' = mycol
                /\ \A d \in QueryDays :
                      get_output(mycol', d) = get_output(mycol, d)]_vars

\* C12 witness: a job was cancelled and another ended by the timeout before the
\* cap, and the records both inserted are still served
C12_Witness ==
    \E t, u \in Tasks :
        /\ pc[t] = "REVOKED"
        /\ pc[u] = "SUCCESS"
        /\ processed_files[u] < MaxProcessed
        /\ DocsBy(mycol, t) # {}
        /\ DocsBy(mycol, u) # {}
        /\ \A i \in 1..Len(mycol) : get_output(mycol, mycol[i].day).status = 200

\* C13: when the pool process that launched a simulator has been killed, the
\* simulator is not running without a termination signal.
C13_KilledWorkerLeavesNoOrphan ==
    \A t \in Tasks :
        (pc[t] = "REVOKED" /\ sim[t].st = "running") => sim[t].sig

\* the step begins run_pes for job t, with the request at the head of the queue
StartsJob(t) == pc[t] = "queued" /\ pc'[t] \in {"popen", "FAILURE"}

\* everything return_valid_input reads outside the NPI block is there and
\* initial_infected parses
RestIsValid(input) ==
    /\ SubscriptedKeys \subseteq DOMAIN input
    /\ initial_infected(input).t # "raise"

\* the complete request with one NPI
OneNpi(npi) == [ValidRequest EXCEPT !.npis = JsonText(List(<<Dict(npi)>>))]

\* the value the written config holds for the request's field k
ConfigField(cfg, k) ==
    CASE k = "nu" -> cfg.parameters.nu
      [] k = "initial_infected" -> cfg.initial_infected
      [] k = "antiviral_stockpile" -> cfg.antivirals.antiviral_stockpile
      [] k = "vaccine_stockpile" -> cfg.vaccines.vaccine_stockpile
      [] k = "vaccine_adherence" -> cfg.vaccines.vaccine_adherence
      [] k = "vaccine_effectiveness" -> cfg.vaccines.vaccine_effectiveness

\* C14: when return_valid_input raises for the job's request, and whenever the
\* request lacks R0 or nu, run_pes ends in failure in that step with INPUT.json
\* not written, no simulator and no record; and a job that failed without
\* writing its config never launches a simulator, never writes the config and
\* never adds a record.
C14_NormalizationErrorFatal ==
    /\ [][\A t \in Tasks :
            (/\ StartsJob(t)
             /\ \/ return_valid_input_raises(Head(broker).input)
                \/ "R0" \notin DOMAIN Head(broker).input
                \/ "nu" \notin DOMAIN Head(broker).input) =>
                   /\ pc'[t] = "FAILURE"
                   /\ INPUT_json' = INPUT_json
                   /\ sim' = sim
                   /\ mycol' = mycol]_vars
    /\ [](\A t \in Tasks :
            (pc[t] = "FAILURE" /\ INPUT_json.id # t) =>
                sim[t] = NoSim /\ DocsBy(mycol, t) = {})
    /\ [][\A t \in Tasks :
            (pc[t] = "FAILURE" /\ INPUT_json.id # t) =>
                /\ pc'[t] = "FAILURE"
                /\ INPUT_json'.id # t
                /\ sim'[t] = sim[t]]_vars

\* C14 witness: the job has failed in normalization: no config was written, no
\* simulator was launched and the store is empty
C14_Witness ==
    \E t \in Tasks :
        /\ pc[t] = "FAILURE"
        /\ INPUT_json = NoConfig
        /\ sim[t] = NoSim
        /\ mycol = <<>>

\* C15: a request whose npis is a string that is no JSON, and that is valid
\* otherwise, does not fail the job: run_pes writes the config with
\* non_pharma_interventions null and goes on to Popen; a job whose config is
\* written does not fail, and it harvests only with its simulator launched.
C15_MalformedNpisNotFatal ==
    /\ [][\A t \in Tasks :
            (/\ StartsJob(t)
             /\ "npis" \in DOMAIN Head(broker).input
             /\ Head(broker).input.npis \in Malformed
             /\ RestIsValid(Head(broker).input)) =>
                   /\ pc'[t] = "popen"
                   /\ INPUT_json'.id = t
                   /\ INPUT_json'.input_file.non_pharma_interventions = None]_vars
    /\ [](\A t \in Tasks :
            INPUT_json.id = t =>
                /\ pc[t] # "FAILURE"
                /\ pc[t] \in Harvesting \cup {"SUCCESS"} =>
                       sim[t].st \in {"running", "dead"})

\* C15 witness: the job whose config has the null non_pharma_interventions
\* has launched its simulator and ingested a day
C15_Witness ==
    \E t \in Tasks :
        /\ INPUT_json.id = t
        /\ INPUT_json.input_file.non_pharma_interventions = None
        /\ sim[t].st = "running"
        /\ processed_files[t] >= 1
        /\ DocsBy(mycol, t) # {}

\* C16: with initial_infected, antiviral_stockpile or vaccine_stockpile present
\* but no JSON, in a request valid otherwise, return_valid_input does not raise
\* and the config holds the sentinel (null or the empty list) for the field.
C16_MalformedSubfieldDegrades ==
    [][\A t \in Tasks :
        StartsJob(t) =>
            \A k \in {"initial_infected", "antiviral_stockpile",
                      "vaccine_stockpile"} :
                \A x \in Malformed :
                    Head(broker).input = [ValidRequest EXCEPT ![k] = x] =>
                        /\ pc'[t] = "popen"
                        /\ ConfigField(INPUT_json'.input_file, k)
                               \in {None, List(<<>>)}]_vars

\* the location of the written config's only NPI
LocationOf(cfg) == cfg.non_pharma_interventions.l[1].d.location

\* C17: whatever shape of Shapes(L) writes the sequence of regions L as the
\* NPI's location, the config holds the joined id string that the list shape
\* of L gives.
C17_LocationShapesAgree ==
    [][\A t \in Tasks :
        StartsJob(t) =>
            \A L \in NameSeqs :
                \A loc \in Shapes(L) :
                    Head(broker).input
                        = OneNpi([BaseNpi EXCEPT !.location = loc]) =>
                        /\ pc'[t] = "popen"
                        /\ LocationOf(INPUT_json'.input_file) =
                             LocationOf(return_valid_input(
                                 OneNpi([BaseNpi EXCEPT !.location =
                                     List([i \in 1..Len(L) |-> Str(L[i])])])).d)
       ]_vars

\* C18: an NPI location naming the regions L, at least one of them unknown to
\* the mapping, in any shape: normalization does not raise, the NPI is in the
\* config, and its location has one id per name of L, in order: the mapped id
\* of a known name, '1' for an unknown one.
C18_UnknownRegionDefaults ==
    [][\A t \in Tasks :
        StartsJob(t) =>
            \A L \in NameSeqs :
                \A loc \in Shapes(L) :
                    (/\ \E i \in 1..Len(L) : L[i] \notin DOMAIN texas_mapping
                     /\ Head(broker).input
                          = OneNpi([BaseNpi EXCEPT !.location = loc])) =>
                        /\ pc'[t] = "popen"
                        /\ INPUT_json'.input_file.non_pharma_interventions.t
                               = "list"
                        /\ Len(INPUT_json'.input_file
                                   .non_pharma_interventions.l) = 1
                        /\ LET ids == split(
                                   LocationOf(INPUT_json'.input_file).s, ",")
                           IN  /\ Len(ids) = Len(L)
                               /\ \A i \in 1..Len(L) :
                                     ids[i] =
                                       IF L[i] \in DOMAIN texas_mapping
                                       THEN texas_mapping[L[i]]
                                       ELSE <<"1">>]_vars

\* C18 witness: one warning was printed and the location written is '1,3': an
\* unknown name defaulted, followed by a known name
C18_Witness ==
    \E t \in Tasks :
        /\ INPUT_json.id = t
        /\ warning_log[t] = 1
        /\ INPUT_json.input_file.non_pharma_interventions.t = "list"
        /\ Len(INPUT_json.input_file.non_pharma_interventions.l) = 1
        /\ LocationOf(INPUT_json.input_file) = Str(<<"1", ",", "3">>)

\* five entries: a list of five, or a string of five comma-joined pieces
HasFive(x) ==
    \/ x.t = "list" /\ Len(x.l) = AgeGroups
    \/ x.t = "str" /\ Len(split(x.s, ",")) = AgeGroups

\* C19: for every supported shape (scalar, comma-joined string, list) of an
\* NPI's effectiveness, of nu, of vaccine_adherence and of
\* vaccine_effectiveness, the value in the config has five entries.
C19_FiveEntries ==
    [][\A t \in Tasks :
        StartsJob(t) =>
            \A x \in GroupShapes :
                /\ Head(broker).input
                       = OneNpi([BaseNpi EXCEPT !.effectiveness = x]) =>
                      /\ pc'[t] = "popen"
                      /\ HasFive(INPUT_json'.input_file
                                   .non_pharma_interventions.l[1].d.effectiveness)
                /\ \A k \in {"nu", "vaccine_adherence",
                             "vaccine_effectiveness"} :
                      Head(broker).input = [ValidRequest EXCEPT ![k] = x] =>
                          /\ pc'[t] = "popen"
                          /\ HasFive(ConfigField(INPUT_json'.input_file, k))
       ]_vars

\* C20: a single scalar v given for vaccine_adherence, vaccine_effectiveness or
\* nu is broadcast: the config holds a list of five entries, each v (the
\* number, or the number its text denotes).
C20_ScalarBroadcast ==
    [][\A t \in Tasks :
        StartsJob(t) =>
            \A k \in {"vaccine_adherence", "vaccine_effectiveness", "nu"} :
                \A v \in ScalarShapes :
                    Head(broker).input = [ValidRequest EXCEPT ![k] = v] =>
                        /\ pc'[t] = "popen"
                        /\ LET x == ConfigField(INPUT_json'.input_file, k)
                           IN  /\ x.t = "list"
                               /\ Len(x.l) = AgeGroups
                               /\ \A i \in 1..Len(x.l) :
                                     x.l[i] \in {v, json_loads(v)}]_vars

\* C21: every submit puts exactly one new message at the end of the queue, for
\* a task id no earlier job has, and returns with the job only queued (no job
\* has moved, nothing was launched or stored); a submit is never refused
\* because a job is waiting or running, whatever the request.
C21_SubmitEnqueuesOneNewJob ==
    /\ [][next_id' # next_id =>
            /\ next_id' = next_id + 1
            /\ Len(broker') = Len(broker) + 1
            /\ SubSeq(broker', 1, Len(broker)) = broker
            /\ broker'[Len(broker')].id = next_id
            /\ pc[next_id] = "none"
            /\ \A i \in 1..Len(broker) : broker[i].id # next_id
            /\ pc' = [pc EXCEPT ![next_id] = "queued"]
            /\ sim' = sim
            /\ mycol' = mycol
            /\ INPUT_json' = INPUT_json]_vars
    /\ [](next_id <= MaxJobs =>
            \A input \in Inputs :
                ENABLED (run_job /\ broker'[Len(broker')].input = input))
    /\ [](\A t \in Tasks : (pc[t] = "none") <=> (t >= next_id))

\* C21 witness: the same complete request was submitted twice: the first job
\* is running with its config written, the second waits under another id
C21_Witness ==
    /\ pc[1] \in Harvesting
    /\ INPUT_json = [id |-> 1, input_file |-> return_valid_input(ValidRequest).d]
    /\ broker = <<[id |-> 2, input |-> ValidRequest]>>
    /\ pc[2] = "queued"

\* no record of day d is stored, and a running job's simulation has not got
\* to day d yet
NotYetAvailable(d) ==
    /\ Matching(mycol, d) = {}
    /\ \E t \in Tasks :
          /\ pc[t] \in Active
          /\ sim[t].st \in {"none", "forked", "running"}
          /\ ~sim[t].sig
          /\ sim[t].day <= d

\* no record of day d is stored, and no job is waiting or running that could
\* store one: every run was cancelled, has timed out or has ended
WillNeverExist(d) ==
    /\ Matching(mycol, d) = {}
    /\ \A t \in Tasks : pc[t] \notin Active \cup {"queued"}

\* C22: get_day tells 'not yet available' from 'will never exist': when a day
\* that a running simulation had not produced yet becomes a day no run can
\* produce any more, the response for that day changes.
C22_NotYetDiffersFromNever ==
    [][\A d \in Days :
          (NotYetAvailable(d) /\ WillNeverExist(d)') =>
              get_output(mycol', d) # get_output(mycol, d)]_vars

\* the simulator of job t exited at start-up, without any output file
Crashed(t) ==
    /\ sim[t].st = "dead"
    /\ sim[t].day = 0
    /\ ~sim[t].writing
    /\ ~sim[t].sig

\* C23: a job whose simulator exited at start-up without writing any output
\* file does not end with the normal completion summary.
C23_ProcessErrorFailsJob ==
    [][\A t \in Tasks :
          (Crashed(t) /\ pc[t] \in Harvesting) => pc'[t] # "SUCCESS"]_vars

\* signals a process can neither catch nor ignore
CannotBeCaught == {"SIGKILL", "SIGSTOP"}

\* the signal pending at the simulator of job t
SignalAtChild(t) == IF sim[t].sig THEN on_parent_exit_signame ELSE "none"

\* C27: the signal that reaches the simulator of a cancelled job is one the
\* simulator can neither catch nor ignore.
C27_ChildGetsUncatchableSignal ==
    \A t \in Tasks :
        (pc[t] = "REVOKED" /\ sim[t].sig) => SignalAtChild(t) \in CannotBeCaught

\* C29: once run_pes has returned its summary, the simulator it launched is
\* not running, and no output file of that simulator appears or changes.
C29_ReturnedJobHasNoSimulator ==
    /\ [](\A t \in Tasks : pc[t] = "SUCCESS" => sim[t].st # "running")
    /\ [][\A t \in Tasks : \A d \in Days :
            (pc[t] = "SUCCESS" /\ outdir'[d] # outdir[d]) =>
                outdir'[d].src # t]_vars

\* C30: every stored record was read from a file written by the simulator
\* that the inserting job launched.
C30_RecordsFromOwnSimulator ==
    \A i \in 1..Len(mycol) : mycol[i].total_summary = mycol[i]._id[1]

\* C24: the steps of a job come in the order normalize, write INPUT.json,
\* launch, harvest, return: run_pes goes on to Popen only in the step that
\* wrote this job's complete config; the simulator is forked only by a job
\* that is at Popen; the loop is entered only from Popen, with the simulator
\* exec'ed and still at its start (the launch has not waited for it); a job in
\* the loop has a launched simulator; and the summary is returned only from
\* the loop.
C24_StepsInOrder ==
    /\ [][\A t \in Tasks :
            /\ (pc'[t] = "popen" /\ pc[t] # "popen") =>
                  /\ pc[t] = "queued"
                  /\ INPUT_json' =
                        [id |-> t,
                         input_file |-> return_valid_input(Head(broker).input).d]
                  /\ sim[t] = NoSim
            /\ (sim[t].st = "none" /\ sim'[t].st # "none") =>
                  /\ pc[t] = "popen"
                  /\ sim'[t].st = "forked"
            /\ (pc'[t] \in Harvesting /\ pc[t] \notin Harvesting) =>
                  /\ pc[t] = "popen_wait"
                  /\ pc'[t] = "loop"
                  /\ sim'[t].st = "running"
                  /\ sim'[t].day = 0
                  /\ ~sim'[t].writing
            /\ (pc'[t] = "SUCCESS" /\ pc[t] # "SUCCESS") =>
                  pc[t] \in Harvesting]_vars
    /\ [](\A t \in Tasks :
            pc[t] \in Harvesting => sim[t].st \in {"running", "dead"})

\* C24 witness: a job that wrote its config and launched its simulator is in
\* the loop and has ingested a day while the simulator is still running
C24_Witness ==
    \E t \in Tasks :
        /\ INPUT_json.id = t
        /\ pc[t] \in Harvesting
        /\ sim[t].st = "running"
        /\ sim[t].day < SimDays
        /\ processed_files[t] >= 1

HarvesterTransitions ==
    {<<"loop", "picked">>, <<"picked", "remove">>, <<"picked", "except">>,
     <<"remove", "except">>, <<"remove", "loop">>, <<"except", "loop">>,
     <<"loop", "SUCCESS">>, <<"remove", "SUCCESS">>, <<"except", "SUCCESS">>}

\* C26: a step of a job in the loop follows HarvesterTransitions: a file is
\* found only by a poll before the timeout, the loop is left for Done only
\* with the timeout elapsed or the cap reached.  The loop is left otherwise
\* only by the kill of a cancellation or by the exception of os.remove in the
\* except clause on a file that is gone.  A job that has left the loop stays
\* as it is, inserts no record, and no file disappears but by a job in the
\* loop deleting the file it picked.
C26_HarvesterStateMachine ==
    /\ [][\A t \in Tasks :
            (pc[t] \in Harvesting /\ pc'[t] # pc[t]) =>
                \/ /\ <<pc[t], pc'[t]>> \in HarvesterTransitions
                   /\ pc'[t] = "picked" => start_elapsed[t] < max_wait_time
                   /\ pc'[t] = "SUCCESS" =>
                         \/ start_elapsed[t] >= max_wait_time
                         \/ processed_files'[t] >= MaxProcessed
                \/ /\ pc'[t] = "REVOKED"
                   /\ t \in revoked'
                \/ /\ pc[t] = "except"
                   /\ pc'[t] = "FAILURE"
                   /\ outdir[files[t].name].st = "none"]_vars
    /\ [][\A t \in Tasks :
            pc[t] \in Terminal =>
                /\ pc'[t] = pc[t]
                /\ ~InsertedBy(t)]_vars
    /\ [][\A d \in Days :
            (outdir[d].st # "none" /\ outdir'[d].st = "none") =>
                \E u \in Tasks :
                    /\ pc[u] \in {"remove", "except"}
                    /\ files[u].name = d
                    /\ pc'[u] # pc[u]]_vars

\* C26 witness: one job is Done by the timeout and another by the cap, and a
\* complete file that neither deleted is still there
C26_Witness ==
    \E t, u \in Tasks :
        /\ pc[t] = "SUCCESS"
        /\ processed_files[t] < MaxProcessed
        /\ start_elapsed[t] >= max_wait_time
        /\ pc[u] = "SUCCESS"
        /\ processed_files[u] = MaxProcessed
        /\ \E d \in Days : outdir[d].st = "complete"

\* C28: the series of the polling client holds the consecutive days from day
\* 0: its i-th entry is the record of day i - 1; a tick appends at most the
\* one day it requested, on a 200, and changes nothing otherwise.
C28_SeriesIsConsecutiveFromDay0 ==
    /\ [](\A i \in 1..Len(event_data) : event_data[i].day = i - 1)
    /\ [][\/ event_data' = event_data
          \/ /\ Len(event_data') = Len(event_data) + 1
             /\ SubSeq(event_data', 1, Len(event_data)) = event_data
             /\ get_output(mycol, event_data'[Len(event_data')].day).status
                    = 200]_vars

\* the parsed npis list of a request
NpisOf(input) == json_loads(input.npis).l

\* the request lists at least one NPI that normalizes and one that raises
OneMalformedNpi(input) ==
    /\ "npis" \in DOMAIN input
    /\ json_loads(input.npis).t = "list"
    /\ \E i \in 1..Len(NpisOf(input)) : npi_normalized(NpisOf(input)[i]).t = "raise"
    /\ \E i \in 1..Len(NpisOf(input)) : npi_normalized(NpisOf(input)[i]).t # "raise"

\* C33: when a request valid otherwise lists a malformed NPI next to
\* well-formed ones, the config written for the job holds every well-formed
\* NPI of the list, normalized, in non_pharma_interventions.
C33_MalformedNpiKeepsOthers ==
    [][\A t \in Tasks :
        (/\ StartsJob(t)
         /\ RestIsValid(Head(broker).input)
         /\ OneMalformedNpi(Head(broker).input)) =>
              /\ INPUT_json'.id = t
              /\ INPUT_json'.input_file.non_pharma_interventions.t = "list"
              /\ \A i \in 1..Len(NpisOf(Head(broker).input)) :
                    LET n == npi_normalized(NpisOf(Head(broker).input)[i])
                    IN  n.t # "raise" =>
                          \E j \in 1..Len(INPUT_json'.input_file
                                            .non_pharma_interventions.l) :
                              INPUT_json'.input_file
                                  .non_pharma_interventions.l[j] = n]_vars

\* the harvesters that have inserted the output file simulator s wrote for day d
InsertersOf(d, s) ==
    {mycol[i]._id[1] : i \in {j \in 1..Len(mycol) :
                                 /\ mycol[j].day = d
                                 /\ mycol[j].total_summary = s}}

\* C31: with two run_pes jobs in flight on the shared exchange directory, each
\* output file is inserted into the store by at most one harvester, and no
\* job leaves its error handler in failure (the handler's os.remove does not
\* raise out of the task when the other job removed the file first).
C31_SharedDirectoryIsSafe ==
    /\ [](\A d \in Days : \A s \in Tasks : Cardinality(InsertersOf(d, s)) <= 1)
    /\ [][\A t \in Tasks :
            pc[t] = "except" => pc'[t] # "FAILURE"]_vars

\* the store holds a record of the file f of day d
Stored(d, f) ==
    \E i \in 1..Len(mycol) :
        mycol[i].day = d /\ mycol[i].total_summary = f.src

\* C32: a well-formed (completely written) output file is removed from the
\* exchange directory by a harvester only when its record is in the store; a
\* failed insert does not lose the day.
C32_RemovedOnlyWhenStored ==
    [][\A t \in Tasks : \A d \in Days :
        (/\ pc[t] \in {"remove", "except"}
         /\ files[t].name = d
         /\ outdir[d].st = "complete"
         /\ outdir'[d].st = "none") => Stored(d, outdir[d])]_vars

\* the step appends a record to the dashboard's series
Appends == Len(event_data') = Len(event_data) + 1

\* C34: after Pause (the task is cancelled) and Play (a new job is submitted,
\* with no reset), every record the dashboard appends to its series while the
\* new job is the store's task was produced by the new job's simulation.
C34_AppendsOnlyNewJobRecords ==
    [][(/\ simulation_state.isRunning
        /\ revoked # {}
        /\ simulation_state.taskId \notin revoked
        /\ Appends) =>
            event_data'[Len(event_data')].total_summary
                = simulation_state.taskId]_vars

\* C35: get_simulation_output never raises: a call whose request failed (404,
\* another error status, no response at all) returned None, and a call that
\* was answered 200 returned the decoded record.
C35_GetOutputNeverRaises ==
    /\ api_call.result.t # "raise"
    /\ (api_call.met.exc # "none" \/ api_call.met.response.status # 200) =>
           api_call.result = None
    /\ (api_call.met.exc = "none" /\ api_call.met.response.status = 200) =>
           api_call.result = Dict(api_call.met.response.body)

====
